---- MODULE Spec2Model ----
(***************************************************************************)
(* Model of convert.py: subtitle translation (line classifier, batch       *)
(* translator with retry, the translate_vtt batching loop, the ffmpeg      *)
(* step and main).                                                         *)
(*                                                                         *)
(* A Python str is a sequence of one-character strings, so that strip,     *)
(* split, partition, "in", startswith and isdigit are computed character   *)
(* by character as the interpreter computes them.                          *)
(***************************************************************************)
EXTENDS Integers, Sequences, FiniteSets, TLC

VARIABLES
    pc,               \* control position of the running coroutine
    line,             \* is_translatable: its argument
    verdict,          \* is_translatable: its return value ("none" before the call)
    texts,            \* batch_translate: argument texts
    max_retries,      \* batch_translate: argument max_retries
    attempt,          \* batch_translate: loop variable of range(max_retries)
    requests,         \* number of client.chat.completions.create calls of this call
    in_flight,        \* requests issued and not yet answered
    sleeps,           \* arguments of asyncio.sleep of this call, in order
    content,          \* response.choices[0].message.content of the successful request
    result,           \* batch_translate: returned list (NoList while running)
    lines,            \* translate_vtt: the list lines, mutated in place
    input_file,       \* text of the input_vtt file
    idx,              \* translate_vtt: number of lines the for loop has consumed
    batch,            \* translate_vtt: batch
    batch_indices,    \* translate_vtt: batch_indices (0-based, as in the code)
    translated_lines, \* translate_vtt: translated_lines (written, never read)
    batch_size,       \* translate_vtt: argument batch_size
    site,             \* translate_vtt: which of its two calls is awaited
    calls,            \* history: every batch_translate call made by translate_vtt
    output_file,      \* content of output_vtt (NoText until write_vtt has run)
    ffmpeg_runs,      \* number of subprocess.run invocations of ffmpeg
    console,          \* messages printed by translate_vtt, add_vtt_to_video, main
    entry             \* which function the caller invoked

vars == <<pc, line, verdict, texts, max_retries, attempt, requests, in_flight,
          sleeps, content, result, lines, input_file, idx, batch,
          batch_indices, translated_lines, batch_size, site, calls,
          output_file, ffmpeg_runs, console, entry>>

-----------------------------------------------------------------------------
(* Bounds of the model *)

\* number of pieces a classifier argument is assembled from
MaxPieces == 3
\* number of texts of a direct batch_translate call
MaxTexts == 2
\* largest max_retries of a direct batch_translate call
MaxRetries == 3
\* length of the free-form response texts of the remote service
MaxRespLen == 3
\* number of lines of the subtitle document
MaxDocLines == 3
\* largest batch_size of a direct translate_vtt call
MaxBatchSize == 2

(* Program constants *)

\* default of batch_translate's max_retries
DefaultMaxRetries == 3
\* default of translate_vtt's batch_size, the one main uses
DefaultBatchSize == 10

-----------------------------------------------------------------------------
(* Python str operations *)

\* the value of a str variable that is not bound yet, and of a list variable
NoText == <<"none">>
NoList == <<<<"none">>>>

NL == "\n"
SP == " "
Digits == {"0", "1", "2", "3", "4", "5", "6", "7", "8", "9"}
Whitespace == {SP, NL, "\t"}

ARROW == <<"-", "-", ">">>
WEBVTT == <<"W", "E", "B", "V", "T", "T">>
DOTSP == <<".", SP>>

\* s[i:] of Python, i 0-based
Drop(s, i) == SubSeq(s, i + 1, Len(s))
\* s[:i] of Python
Take(s, i) == SubSeq(s, 1, i)

\* s.startswith(p)
str_startswith(s, p) == Len(p) <= Len(s) /\ Take(s, Len(p)) = p

\* s.find(p): the 0-based index of the first occurrence, -1 if none
RECURSIVE find_from(_, _, _)
find_from(s, p, i) ==
    IF i + Len(p) > Len(s) THEN -1
    ELSE IF SubSeq(s, i + 1, i + Len(p)) = p THEN i
    ELSE find_from(s, p, i + 1)

str_find(s, p) == find_from(s, p, 0)

\* p in s
str_in(p, s) == str_find(s, p) >= 0

\* s.lstrip(), s.rstrip(), s.strip()
RECURSIVE str_lstrip(_)
str_lstrip(s) ==
    IF s /= <<>> /\ Head(s) \in Whitespace THEN str_lstrip(Tail(s)) ELSE s

RECURSIVE str_rstrip(_)
str_rstrip(s) ==
    IF s /= <<>> /\ s[Len(s)] \in Whitespace
    THEN str_rstrip(Take(s, Len(s) - 1)) ELSE s

str_strip(s) == str_rstrip(str_lstrip(s))

\* s.isdigit(): non-empty and every character a digit
str_isdigit(s) == s /= <<>> /\ \A i \in 1..Len(s) : s[i] \in Digits

\* s.split('\n'): always at least one element
RECURSIVE str_split(_)
str_split(s) ==
    LET k == str_find(s, <<NL>>)
    IN  IF k < 0 THEN <<s>>
        ELSE <<Take(s, k)>> \o str_split(Drop(s, k + 1))

\* s.partition('. ')[2]: what follows the first '. ' (empty if there is none)
str_partition2(s) ==
    LET k == str_find(s, DOTSP)
    IN  IF k < 0 THEN <<>> ELSE Drop(s, k + Len(DOTSP))

\* sep.join(parts)
RECURSIVE str_join(_, _)
str_join(sep, parts) ==
    IF parts = <<>> THEN <<>>
    ELSE IF Len(parts) = 1 THEN parts[1]
    ELSE parts[1] \o sep \o str_join(sep, Tail(parts))

\* str(n) for n >= 0
DigitChar(d) ==
    CASE d = 0 -> "0" [] d = 1 -> "1" [] d = 2 -> "2" [] d = 3 -> "3" [] d = 4 -> "4"
      [] d = 5 -> "5" [] d = 6 -> "6" [] d = 7 -> "7" [] d = 8 -> "8" [] d = 9 -> "9"

RECURSIVE str_of_int(_)
str_of_int(n) ==
    IF n < 10 THEN <<DigitChar(n)>>
    ELSE str_of_int(n \div 10) \o <<DigitChar(n % 10)>>

-----------------------------------------------------------------------------
(* is_translatable *)

\* variant: the header token is looked for anywhere in the line
is_translatable_header_anywhere(ln) ==
    ~ (str_in(ARROW, ln) \/ str_strip(ln) = <<>> \/ str_in(WEBVTT, ln)
       \/ str_isdigit(str_strip(ln)))

is_translatable(ln) ==
    ~ (str_in(ARROW, ln) \/ str_strip(ln) = <<>> \/ str_startswith(ln, WEBVTT)
       \/ str_isdigit(str_strip(ln)))

-----------------------------------------------------------------------------
(* Inputs *)

\* sequences over S of length lo..hi
SeqsOf(S, lo, hi) == UNION {[1..n -> S] : n \in lo..hi}

RECURSIVE Concat(_)
Concat(parts) == IF parts = <<>> THEN <<>> ELSE Head(parts) \o Concat(Tail(parts))

\* arguments of is_translatable: up to MaxPieces pieces, concatenated
LinePieces == {WEBVTT, ARROW, <<"7">>, <<SP>>, <<"a">>, <<NL>>}
ClassifierLines == {Concat(ps) : ps \in SeqsOf(LinePieces, 0, MaxPieces)}

\* caption texts handed to batch_translate directly
Captions == {<<"a">>, <<"b", SP, "c">>}

\* what the remote model may give as the translation of one caption
Translations == {<<"A">>, <<"B", ".", SP, "c">>}

\* the bodies of the lines of a subtitle document
DocBodies == {WEBVTT, <<>>, <<"1">>, <<"0", "-", "-", ">", "1">>, <<"a">>, <<SP, "b", SP>>}

\* the text of a document: its lines, the last one with or without terminator
DocText(bodies, final_nl) ==
    str_join(<<NL>>, bodies) \o (IF final_nl /\ bodies /= <<>> THEN <<NL>> ELSE <<>>)

InputFiles ==
    {DocText(bs, nl) : bs \in SeqsOf(DocBodies, 0, MaxDocLines), nl \in BOOLEAN}

\* the numbered reply the prompt asks for: "1. t1\n2. t2\n..."
NumberedReply(tr) ==
    str_join(<<NL>>, [i \in 1..Len(tr) |-> str_of_int(i) \o DOTSP \o tr[i]])

\* the same lines without their numbers
BareReply(tr) == str_join(<<NL>>, tr)

RespAlphabet == {"1", ".", SP, NL, "A"}

\* a stand-in for the remote model: the translation of one caption
Upper(c) == CASE c = "a" -> "A" [] c = "b" -> "B" [] c = "c" -> "C" [] OTHER -> c
StubTranslate(t) == [i \in 1..Len(t) |-> Upper(t[i])]

\* the translations of the lines of a prompt, and the same with the last one
\* missing, with one line too many, and with no line at all
StubReplies(ts) ==
    LET tr == [i \in 1..Len(ts) |-> StubTranslate(ts[i])]
    IN  {tr, Take(tr, Len(tr) - 1), Append(tr, <<"A">>), <<>>}

\* message contents the remote service may answer the prompt for ts with:
\* to a direct call of batch_translate any short text and any numbered or bare
\* list of translations; within translate_vtt the numbered replies of the stub
ServiceContents(ts) ==
    IF entry = "batch_translate"
    THEN LET trs == SeqsOf(Translations, 0, Len(ts) + 1)
         IN  SeqsOf(RespAlphabet, 0, MaxRespLen)
             \cup {NumberedReply(tr) : tr \in trs} \cup {BareReply(tr) : tr \in trs}
    ELSE {NumberedReply(tr) : tr \in StubReplies(ts)}

-----------------------------------------------------------------------------
(* read_vtt and write_vtt *)

\* file.readlines(): the lines of a text, each with its terminator
RECURSIVE str_readlines(_)
str_readlines(s) ==
    LET k == str_find(s, <<NL>>)
    IN  IF s = <<>> THEN <<>>
        ELSE IF k < 0 THEN <<s>>
        ELSE <<Take(s, k + 1)>> \o str_readlines(Drop(s, k + 1))

\* read_vtt: the decoded file as a list of lines
read_vtt(file) == str_readlines(file)

\* write_vtt: what file.write("".join(lines)) leaves in the file
write_vtt(ls) == Concat(ls)

-----------------------------------------------------------------------------
(* batch_translate *)

\* variant: the line is cut at its last '. ' (rpartition)
RECURSIVE rfind_from(_, _, _)
rfind_from(s, p, i) ==
    IF i < 0 THEN -1
    ELSE IF SubSeq(s, i + 1, i + Len(p)) = p THEN i
    ELSE rfind_from(s, p, i - 1)

strip_prefix_last(ln) ==
    LET k == rfind_from(ln, DOTSP, Len(ln) - Len(DOTSP))
    IN  IF k < 0 THEN ln ELSE Drop(ln, k + Len(DOTSP))

\* one element of translated_lines
strip_prefix(ln) == IF str_in(DOTSP, ln) THEN str_partition2(ln) ELSE ln

\* translated_lines of a successful response
parse_response(c) ==
    LET translated_text == str_split(str_strip(c))
    IN  [i \in 1..Len(translated_text) |-> strip_prefix(translated_text[i])]

\* 2 ** attempt
RECURSIVE Pow2(_)
Pow2(n) == IF n = 0 THEN 1 ELSE 2 * Pow2(n - 1)

backoff(a) == Pow2(a)

\* variant: one attempt more than max_retries
more_attempts_one_more == attempt <= max_retries

\* range(max_retries) has another value
more_attempts == attempt < max_retries

\* what batch_translate returns once range(max_retries) is exhausted
fallback(ts) == ts

\* the request of one attempt is sent
BtRequest ==
    /\ pc = "bt_loop"
    /\ more_attempts
    /\ requests' = requests + 1
    /\ in_flight' = in_flight + 1
    /\ pc' = "bt_wait"
    /\ UNCHANGED <<line, verdict, texts, max_retries, attempt, sleeps, content,
                   result, lines, input_file, idx, batch, batch_indices,
                   translated_lines, batch_size, site, calls, output_file,
                   ffmpeg_runs, console, entry>>

\* the request is answered: the response is parsed and returned
BtResponse ==
    /\ pc = "bt_wait"
    /\ \E c \in ServiceContents(texts) :
          /\ content' = c
          /\ result' = parse_response(c)
    /\ in_flight' = in_flight - 1
    /\ pc' = "bt_return"
    /\ UNCHANGED <<line, verdict, texts, max_retries, attempt, requests, sleeps,
                   lines, input_file, idx, batch, batch_indices,
                   translated_lines, batch_size, site, calls, output_file,
                   ffmpeg_runs, console, entry>>

\* the request raises: the error is printed, the coroutine sleeps 2 ** attempt
\* seconds and the loop goes on
BtException ==
    /\ pc = "bt_wait"
    /\ in_flight' = in_flight - 1
    /\ sleeps' = Append(sleeps, backoff(attempt))
    /\ attempt' = attempt + 1
    /\ pc' = "bt_loop"
    /\ UNCHANGED <<line, verdict, texts, max_retries, requests, content, result,
                   lines, input_file, idx, batch, batch_indices,
                   translated_lines, batch_size, site, calls, output_file,
                   ffmpeg_runs, console, entry>>

\* the loop is over without a return: the original texts are returned
BtExhausted ==
    /\ pc = "bt_loop"
    /\ ~ more_attempts
    /\ result' = fallback(texts)
    /\ pc' = "bt_return"
    /\ UNCHANGED <<line, verdict, texts, max_retries, attempt, requests, in_flight,
                   sleeps, content, lines, input_file, idx, batch, batch_indices,
                   translated_lines, batch_size, site, calls, output_file,
                   ffmpeg_runs, console, entry>>

-----------------------------------------------------------------------------
(* translate_vtt *)

Min(a, b) == IF a < b THEN a ELSE b

\* the for loop has another line
more_lines == idx < Len(lines)

\* line.strip() of the line the loop is at
stripped_line == str_strip(lines[idx + 1])

\* variant: the batch is dispatched one line late
batch_full_late(b) == Len(b) > batch_size

\* len(batch) == batch_size
batch_full(b) == Len(b) = batch_size

\* variant: the translations are written one line below their captions
zip_apply_shifted(ls, indices, translated_batch) ==
    LET n == Min(Len(indices), Len(translated_batch))
    IN  [i \in 1..Len(ls) |->
            IF \E k \in 1..n : indices[k] + 1 = i - 1
            THEN translated_batch[CHOOSE k \in 1..n : indices[k] + 1 = i - 1] \o <<NL>>
            ELSE ls[i]]

\* for i, translated_line in zip(batch_indices, translated_batch):
\*     lines[i] = translated_line + '\n'
zip_apply(ls, indices, translated_batch) ==
    LET n == Min(Len(indices), Len(translated_batch))
    IN  [i \in 1..Len(ls) |->
            IF \E k \in 1..n : indices[k] = i - 1
            THEN translated_batch[CHOOSE k \in 1..n : indices[k] = i - 1] \o <<NL>>
            ELSE ls[i]]

\* lines = await read_vtt(input_vtt)
ReadVtt ==
    /\ pc = "tv_read"
    /\ lines' = read_vtt(input_file)
    /\ pc' = "tv_loop"
    /\ UNCHANGED <<line, verdict, texts, max_retries, attempt, requests, in_flight,
                   sleeps, content, result, input_file, idx, batch, batch_indices,
                   translated_lines, batch_size, site, calls, output_file,
                   ffmpeg_runs, console, entry>>

\* one iteration on a line that is not translatable
LoopSkip ==
    /\ pc = "tv_loop"
    /\ more_lines
    /\ ~ is_translatable(stripped_line)
    /\ translated_lines' = Append(translated_lines, <<idx, stripped_line>>)
    /\ idx' = idx + 1
    /\ UNCHANGED <<pc, line, verdict, texts, max_retries, attempt, requests,
                   in_flight, sleeps, content, result, lines, input_file, batch,
                   batch_indices, batch_size, site, calls, output_file,
                   ffmpeg_runs, console, entry>>

\* one iteration on a translatable line that does not fill the batch
LoopCollect ==
    /\ pc = "tv_loop"
    /\ more_lines
    /\ is_translatable(stripped_line)
    /\ ~ batch_full(Append(batch, stripped_line))
    /\ batch' = Append(batch, stripped_line)
    /\ batch_indices' = Append(batch_indices, idx)
    /\ idx' = idx + 1
    /\ UNCHANGED <<pc, line, verdict, texts, max_retries, attempt, requests,
                   in_flight, sleeps, content, result, lines, input_file,
                   translated_lines, batch_size, site, calls, output_file,
                   ffmpeg_runs, console, entry>>

\* one iteration on a translatable line that fills the batch:
\* await batch_translate(batch) begins
LoopDispatch ==
    /\ pc = "tv_loop"
    /\ more_lines
    /\ is_translatable(stripped_line)
    /\ batch_full(Append(batch, stripped_line))
    /\ batch' = Append(batch, stripped_line)
    /\ batch_indices' = Append(batch_indices, idx)
    /\ idx' = idx + 1
    /\ texts' = batch'
    /\ max_retries' = DefaultMaxRetries
    /\ attempt' = 0
    /\ requests' = 0
    /\ sleeps' = <<>>
    /\ content' = NoText
    /\ result' = NoList
    /\ site' = "loop"
    /\ calls' = Append(calls, [texts |-> batch', indices |-> batch_indices',
                               at |-> idx', result |-> NoList])
    /\ pc' = "bt_loop"
    /\ UNCHANGED <<line, verdict, in_flight, lines, input_file, translated_lines,
                   batch_size, output_file, ffmpeg_runs, console, entry>>

\* after the loop, "if batch:" holds: await batch_translate(batch) begins
TailDispatch ==
    /\ pc = "tv_loop"
    /\ ~ more_lines
    /\ batch /= <<>>
    /\ texts' = batch
    /\ max_retries' = DefaultMaxRetries
    /\ attempt' = 0
    /\ requests' = 0
    /\ sleeps' = <<>>
    /\ content' = NoText
    /\ result' = NoList
    /\ site' = "tail"
    /\ calls' = Append(calls, [texts |-> batch, indices |-> batch_indices,
                               at |-> idx, result |-> NoList])
    /\ pc' = "bt_loop"
    /\ UNCHANGED <<line, verdict, in_flight, lines, input_file, idx, batch,
                   batch_indices, translated_lines, batch_size, output_file,
                   ffmpeg_runs, console, entry>>

\* after the loop, "if batch:" does not hold
TailSkip ==
    /\ pc = "tv_loop"
    /\ ~ more_lines
    /\ batch = <<>>
    /\ pc' = "tv_write"
    /\ UNCHANGED <<line, verdict, texts, max_retries, attempt, requests, in_flight,
                   sleeps, content, result, lines, input_file, idx, batch,
                   batch_indices, translated_lines, batch_size, site, calls,
                   output_file, ffmpeg_runs, console, entry>>

\* batch_translate has returned to translate_vtt: the zip loop overwrites the
\* lines; in the for loop the batch is emptied and the loop goes on
ApplyBatch ==
    /\ pc = "bt_return"
    /\ entry \in {"translate_vtt", "main"}
    /\ lines' = zip_apply(lines, batch_indices, result)
    /\ calls' = [calls EXCEPT ![Len(calls)].result = result]
    /\ IF site = "loop"
       THEN batch' = <<>> /\ batch_indices' = <<>> /\ pc' = "tv_loop"
       ELSE UNCHANGED <<batch, batch_indices>> /\ pc' = "tv_write"
    /\ texts' = <<>>
    /\ max_retries' = 0
    /\ attempt' = 0
    /\ requests' = 0
    /\ sleeps' = <<>>
    /\ content' = NoText
    /\ result' = NoList
    /\ site' = "none"
    /\ UNCHANGED <<line, verdict, in_flight, input_file, idx, translated_lines,
                   batch_size, output_file, ffmpeg_runs, console, entry>>

\* await write_vtt(output_vtt, lines), then the message
WriteVtt ==
    /\ pc = "tv_write"
    /\ output_file' = write_vtt(lines)
    /\ console' = Append(console, "Translated VTT saved")
    /\ pc' = IF entry = "main" THEN "main_mux" ELSE "done"
    /\ UNCHANGED <<line, verdict, texts, max_retries, attempt, requests, in_flight,
                   sleeps, content, result, lines, input_file, idx, batch,
                   batch_indices, translated_lines, batch_size, site, calls,
                   ffmpeg_runs, entry>>

-----------------------------------------------------------------------------
(* add_vtt_to_video and main *)

\* variant: translate_vtt(...) is called without await, so it never runs
MainStart_no_await ==
    /\ pc = "main_start"
    /\ console' = Append(console, "Translating subtitles...")
    /\ pc' = "main_mux"
    /\ UNCHANGED <<line, verdict, texts, max_retries, attempt, requests, in_flight,
                   sleeps, content, result, lines, input_file, idx, batch,
                   batch_indices, translated_lines, batch_size, site, calls,
                   output_file, ffmpeg_runs, entry>>

\* main: the first message, then await translate_vtt(input_vtt, output_vtt)
MainStart ==
    /\ pc = "main_start"
    /\ console' = Append(console, "Translating subtitles...")
    /\ pc' = "tv_read"
    /\ UNCHANGED <<line, verdict, texts, max_retries, attempt, requests, in_flight,
                   sleeps, content, result, lines, input_file, idx, batch,
                   batch_indices, translated_lines, batch_size, site, calls,
                   output_file, ffmpeg_runs, entry>>

\* subprocess.run(command, check=True) returns: ffmpeg exited with status 0
FfmpegSucceeds ==
    /\ pc = "main_mux"
    /\ ffmpeg_runs' = ffmpeg_runs + 1
    /\ console' = console \o <<"Adding subtitles to video...",
                               "Subtitles successfully added">>
    /\ pc' = "main_complete"
    /\ UNCHANGED <<line, verdict, texts, max_retries, attempt, requests, in_flight,
                   sleeps, content, result, lines, input_file, idx, batch,
                   batch_indices, translated_lines, batch_size, site, calls,
                   output_file, entry>>

\* subprocess.run raises CalledProcessError (ffmpeg exited with a non-zero
\* status): the except clause prints it and add_vtt_to_video returns
FfmpegFails ==
    /\ pc = "main_mux"
    /\ ffmpeg_runs' = ffmpeg_runs + 1
    /\ console' = console \o <<"Adding subtitles to video...",
                               "Error adding subtitles to video">>
    /\ pc' = "main_complete"
    /\ UNCHANGED <<line, verdict, texts, max_retries, attempt, requests, in_flight,
                   sleeps, content, result, lines, input_file, idx, batch,
                   batch_indices, translated_lines, batch_size, site, calls,
                   output_file, entry>>

\* subprocess.run raises an exception that is no CalledProcessError (ffmpeg
\* cannot be started: FileNotFoundError, PermissionError): the except clause
\* does not match and the exception leaves add_vtt_to_video and main
FfmpegNotStarted ==
    /\ pc = "main_mux"
    /\ ffmpeg_runs' = ffmpeg_runs + 1
    /\ console' = Append(console, "Adding subtitles to video...")
    /\ pc' = "raised"
    /\ UNCHANGED <<line, verdict, texts, max_retries, attempt, requests, in_flight,
                   sleeps, content, result, lines, input_file, idx, batch,
                   batch_indices, translated_lines, batch_size, site, calls,
                   output_file, entry>>

\* main: the last message
MainComplete ==
    /\ pc = "main_complete"
    /\ console' = Append(console, "Process complete")
    /\ pc' = "done"
    /\ UNCHANGED <<line, verdict, texts, max_retries, attempt, requests, in_flight,
                   sleeps, content, result, lines, input_file, idx, batch,
                   batch_indices, translated_lines, batch_size, site, calls,
                   output_file, ffmpeg_runs, entry>>

-----------------------------------------------------------------------------
(* a direct call of is_translatable *)

Classify ==
    /\ pc = "classify"
    /\ verdict' = is_translatable(line)
    /\ pc' = "done"
    /\ UNCHANGED <<line, texts, max_retries, attempt, requests, in_flight, sleeps,
                   content, result, lines, input_file, idx, batch, batch_indices,
                   translated_lines, batch_size, site, calls, output_file,
                   ffmpeg_runs, console, entry>>

-----------------------------------------------------------------------------
(* Specifications *)

\* is_translatable(line) is called
InitClassify ==
    /\ entry = "is_translatable"
    /\ pc = "classify"
    /\ line \in ClassifierLines
    /\ verdict = "none"
    /\ texts = <<>> /\ max_retries = 0 /\ attempt = 0 /\ requests = 0
    /\ in_flight = 0 /\ sleeps = <<>> /\ content = NoText /\ result = NoList
    /\ lines = <<>> /\ input_file = <<>> /\ idx = 0 /\ batch = <<>>
    /\ batch_indices = <<>> /\ translated_lines = <<>> /\ batch_size = 0
    /\ site = "none" /\ calls = <<>> /\ output_file = NoText /\ ffmpeg_runs = 0
    /\ console = <<>>

\* batch_translate(texts, max_retries) is called
InitBatch ==
    /\ entry = "batch_translate"
    /\ pc = "bt_loop"
    /\ texts \in SeqsOf(Captions, 0, MaxTexts)
    /\ max_retries \in 0..MaxRetries
    /\ line = <<>> /\ verdict = "none"
    /\ attempt = 0 /\ requests = 0
    /\ in_flight = 0 /\ sleeps = <<>> /\ content = NoText /\ result = NoList
    /\ lines = <<>> /\ input_file = <<>> /\ idx = 0 /\ batch = <<>>
    /\ batch_indices = <<>> /\ translated_lines = <<>> /\ batch_size = 0
    /\ site = "none" /\ calls = <<>> /\ output_file = NoText /\ ffmpeg_runs = 0
    /\ console = <<>>

\* translate_vtt(input_vtt, output_vtt, batch_size) is called, or
\* main(input_video, input_vtt), which leaves batch_size at its default
Init ==
    /\ \/ entry = "translate_vtt" /\ pc = "tv_read" /\ batch_size \in 1..MaxBatchSize
       \/ entry = "main" /\ pc = "main_start" /\ batch_size = DefaultBatchSize
    /\ input_file \in InputFiles
    /\ line = <<>> /\ verdict = "none"
    /\ texts = <<>> /\ max_retries = 0 /\ attempt = 0 /\ requests = 0
    /\ in_flight = 0 /\ sleeps = <<>> /\ content = NoText /\ result = NoList
    /\ lines = <<>> /\ idx = 0 /\ batch = <<>>
    /\ batch_indices = <<>> /\ translated_lines = <<>>
    /\ site = "none" /\ calls = <<>> /\ output_file = NoText /\ ffmpeg_runs = 0
    /\ console = <<>>

NextClassify == Classify

NextBatch == BtRequest \/ BtResponse \/ BtException \/ BtExhausted

Next ==
    \/ MainStart \/ ReadVtt \/ LoopSkip \/ LoopCollect \/ LoopDispatch
    \/ TailDispatch \/ TailSkip
    \/ BtRequest \/ BtResponse \/ BtException \/ BtExhausted
    \/ ApplyBatch \/ WriteVtt
    \/ FfmpegSucceeds \/ FfmpegFails \/ FfmpegNotStarted \/ MainComplete

SpecClassify == InitClassify /\ [][NextClassify]_vars

SpecBatch == InitBatch /\ [][NextBatch]_vars

Spec == Init /\ [][Next]_vars

-----------------------------------------------------------------------------
(* The line classes of the specification, stated on the characters of a line *)

HasTimingMarker(l) ==
    \E i \in 1..(Len(l) - 2) : l[i] = "-" /\ l[i + 1] = "-" /\ l[i + 2] = ">"

IsBlank(l) == \A i \in 1..Len(l) : l[i] \in Whitespace

HeaderAt(l, i) ==
    /\ i + 5 <= Len(l)
    /\ l[i] = "W" /\ l[i + 1] = "E" /\ l[i + 2] = "B"
    /\ l[i + 3] = "V" /\ l[i + 4] = "T" /\ l[i + 5] = "T"

StartsWithHeader(l) == HeaderAt(l, 1)

ContainsHeader(l) == \E i \in 1..Len(l) : HeaderAt(l, i)

\* digits only, surrounding whitespace (the line terminator) not counted
IsCueIndex(l) ==
    LET solid == {k \in 1..Len(l) : l[k] \notin Whitespace}
    IN  /\ solid /= {}
        /\ \A k \in solid : l[k] \in Digits
        /\ \A k \in 1..Len(l) :
              (\E a \in solid : a < k) /\ (\E b \in solid : k < b) => k \in solid

-----------------------------------------------------------------------------
(* C6: the classifier *)

\* C6 as claimed: is_translatable(line) is false for every line that contains
\* "-->", is blank after trimming, contains the header token WEBVTT or consists
\* solely of digits, and true for every other line.
C6_HeaderAnywhere ==
    (entry = "is_translatable" /\ pc = "done") =>
        (verdict = ~ (HasTimingMarker(line) \/ IsBlank(line) \/ ContainsHeader(line)
                      \/ IsCueIndex(line)))

\* C6 as amended: is_translatable(line) is false for every line that contains
\* "-->", is blank after trimming, starts with the header token WEBVTT or
\* consists solely of digits after trimming, and true for every other line;
\* a line that holds WEBVTT only after its first character is translatable.
C6_Classifier ==
    (entry = "is_translatable" /\ pc = "done") =>
        (verdict = ~ (HasTimingMarker(line) \/ IsBlank(line) \/ StartsWithHeader(line)
                      \/ IsCueIndex(line)))

\* a line holding the header token after its first character has been classified
C6_Witness ==
    /\ entry = "is_translatable" /\ pc = "done"
    /\ ContainsHeader(line) /\ ~ StartsWithHeader(line)
    /\ ~ HasTimingMarker(line)
    /\ verdict = TRUE

-----------------------------------------------------------------------------
(* C1, C2, C3, C7: batch_translate *)

\* C1 as claimed: batch_translate returns a list with exactly as many elements
\* as texts, whatever the remote service answers (stated here for the calls
\* with at least one text).
C1_SameLength ==
    (pc = "bt_return" /\ texts /= <<>>) => (Len(result) = Len(texts))

\* C2: if every request attempt fails, batch_translate makes exactly
\* max_retries attempts, sleeps after each of them, and returns texts
\* unchanged; no error leaves it.
C2_ExhaustedRetries ==
    /\ pc /= "raised"
    /\ content = NoText => requests <= max_retries
    /\ (pc = "bt_return" /\ content = NoText) =>
          /\ requests = max_retries
          /\ Len(sleeps) = max_retries
          /\ result = texts

\* every attempt of a call with max_retries >= 2 has failed and the call returned
C2_Witness ==
    /\ entry = "batch_translate" /\ pc = "bt_return"
    /\ content = NoText
    /\ max_retries >= 2 /\ requests = max_retries
    /\ texts /= <<>> /\ result = texts

\* C3: when the first request of a call on a non-empty batch succeeds, exactly
\* one request was issued and no backoff sleep happened, and if the response
\* is the numbered list of the translations of the input lines, the i-th
\* returned element is the translation of the i-th line.
C3_SingleAttemptInOrder ==
    (pc = "bt_return" /\ content /= NoText /\ attempt = 0 /\ texts /= <<>>) =>
        /\ requests = 1
        /\ sleeps = <<>>
        /\ in_flight = 0
        /\ \A tr \in [1..Len(texts) -> Translations] :
              content = NumberedReply(tr) => result = tr

\* the first request of a call on two lines was answered with two numbered
\* translations, the first of which holds ". "
C3_Witness ==
    /\ entry = "batch_translate" /\ pc = "bt_return"
    /\ attempt = 0 /\ requests = 1
    /\ Len(texts) = 2
    /\ content = NumberedReply(<< <<"B", ".", SP, "c">>, <<"A">> >>)
    /\ result = << <<"B", ".", SP, "c">>, <<"A">> >>

\* a response line without its numeric prefix "<n>. ", if it has one
RemoveNumericPrefix(l) ==
    IF \E k \in 1..Len(l) :
          /\ k + 2 <= Len(l)
          /\ \A j \in 1..k : l[j] \in Digits
          /\ l[k + 1] = "." /\ l[k + 2] = SP
    THEN LET k == CHOOSE k \in 1..Len(l) :
                      /\ k + 2 <= Len(l)
                      /\ \A j \in 1..k : l[j] \in Digits
                      /\ l[k + 1] = "." /\ l[k + 2] = SP
         IN  Drop(l, k + 2)
    ELSE l

\* C7 as claimed: on a successful response every returned element is the
\* response line with only its numeric prefix removed, and a response line
\* without numeric prefix is returned unchanged.
C7_OnlyNumericPrefixRemoved ==
    (pc = "bt_return" /\ content /= NoText /\ texts /= <<>>) =>
        LET response_lines == str_split(str_strip(content))
        IN  result = [i \in 1..Len(response_lines) |->
                          RemoveNumericPrefix(response_lines[i])]

-----------------------------------------------------------------------------
(* C4, C5, C9: translate_vtt *)

\* the lines of the input document
DocLines == read_vtt(input_file)

\* a line of one of the classes that are not translated: timing cue, blank
\* separator, header, cue index
IsStructural(l) ==
    HasTimingMarker(l) \/ IsBlank(l) \/ StartsWithHeader(str_strip(l)) \/ IsCueIndex(l)

\* the 0-based positions of the translatable lines, in document order
RECURSIVE CaptionPositions(_, _)
CaptionPositions(doc, i) ==
    IF i > Len(doc) THEN <<>>
    ELSE (IF IsStructural(doc[i]) THEN <<>> ELSE <<i - 1>>)
         \o CaptionPositions(doc, i + 1)

\* the indices of the first n calls, one after the other
RECURSIVE DispatchedPositions(_)
DispatchedPositions(n) ==
    IF n = 0 THEN <<>> ELSE DispatchedPositions(n - 1) \o calls[n].indices

translate_vtt_finished == output_file /= NoText

\* C4 as claimed: after translate_vtt every translatable line has been
\* overwritten, at its position, with its counterpart in the list the batch
\* translator returned for its batch, followed by a newline.
C4_EveryCaptionOverwritten ==
    translate_vtt_finished =>
        /\ output_file = Concat(lines)
        /\ DispatchedPositions(Len(calls)) = CaptionPositions(DocLines, 1)
        /\ \A c \in 1..Len(calls) : \A k \in 1..Len(calls[c].indices) :
              /\ k <= Len(calls[c].result)
              /\ lines[calls[c].indices[k] + 1] = calls[c].result[k] \o <<NL>>

\* C4 where C1 holds: if every call of the batch translator returned as many
\* lines as its batch, every translatable line has been overwritten with its
\* counterpart and a newline.
C4_WhenSameLength ==
    (translate_vtt_finished
     /\ \A c \in 1..Len(calls) : Len(calls[c].result) = Len(calls[c].indices)) =>
        /\ output_file = Concat(lines)
        /\ DispatchedPositions(Len(calls)) = CaptionPositions(DocLines, 1)
        /\ \A c \in 1..Len(calls) : \A k \in 1..Len(calls[c].indices) :
              lines[calls[c].indices[k] + 1] = calls[c].result[k] \o <<NL>>

\* C5: the written document has as many lines as the input, and every line
\* that is a timing cue, a cue index, a blank separator or a header is at its
\* position with its content, whatever the batch translator returned.
C5_StructurePreserved ==
    LET doc == DocLines
    IN  /\ pc \notin {"main_start", "tv_read"} => Len(lines) = Len(doc)
        /\ translate_vtt_finished =>
              LET out == str_readlines(output_file)
              IN  /\ Len(out) = Len(doc)
                  /\ \A i \in 1..Len(doc) :
                        IsStructural(doc[i]) => out[i] = doc[i]

\* a document with structural lines and captions has been written after a
\* call that returned fewer lines than its batch or more
C5_Witness ==
    /\ translate_vtt_finished
    /\ \E i \in 1..Len(DocLines) : IsStructural(DocLines[i])
    /\ \E i \in 1..Len(DocLines) : ~ IsStructural(DocLines[i])
    /\ \E c \in 1..Len(calls) : Len(calls[c].result) /= Len(calls[c].indices)
    /\ Len(DocLines) = 3

\* C9: every translatable line is submitted in exactly one batch, in document
\* order; every batch is non-empty and holds at most batch_size lines, every
\* batch but the last holds exactly batch_size lines, and when the output is
\* written ceil(n / batch_size) batches have been dispatched.
C9_Batching ==
    LET doc == DocLines
        captions == CaptionPositions(doc, 1)
        n == Len(captions)
        sent == DispatchedPositions(Len(calls))
    IN  /\ \A c \in 1..Len(calls) :
              /\ calls[c].indices /= <<>>
              /\ Len(calls[c].indices) <= batch_size
              /\ c < Len(calls) => Len(calls[c].indices) = batch_size
              /\ Len(calls[c].texts) = Len(calls[c].indices)
              /\ \A k \in 1..Len(calls[c].indices) :
                    calls[c].texts[k] = str_strip(doc[calls[c].indices[k] + 1])
        /\ Len(sent) <= n /\ sent = Take(captions, Len(sent))
        /\ translate_vtt_finished =>
              /\ sent = captions
              /\ Len(calls) = (n + batch_size - 1) \div batch_size

\* three captions with batch_size 2: a full batch and then the trailing batch
\* of one line, and the output written
C9_Witness ==
    /\ translate_vtt_finished
    /\ batch_size = 2
    /\ Len(calls) = 2
    /\ Len(calls[1].indices) = 2 /\ Len(calls[2].indices) = 1

-----------------------------------------------------------------------------
(* C8, C10: main *)

Printed(msg) == \E i \in 1..Len(console) : console[i] = msg

\* C8 as claimed: whatever the outcome of the transcoding step, the failure
\* is caught and reported by add_vtt_to_video, ffmpeg is run once, nothing is
\* raised to main's caller and main goes on to its completion message.
C8_MainAlwaysCompletes ==
    (entry = "main" /\ ffmpeg_runs > 0) =>
        /\ ffmpeg_runs = 1
        /\ pc \in {"main_complete", "done"}
        /\ Printed("Subtitles successfully added") \/ Printed("Error adding subtitles to video")
        /\ pc = "done" => Printed("Process complete")

\* C10: at most one translation request is in flight; a batch is dispatched
\* only when every earlier call of batch_translate has returned and been
\* applied; the output file is written only after the last batch has
\* returned and been applied to the lines; ffmpeg is run only after the
\* output file has been written.
C10_Sequential ==
    /\ in_flight \in {0, 1}
    /\ in_flight = 1 => pc = "bt_wait"
    /\ \A c \in 1..Len(calls) :
          (calls[c].result = NoList) =>
              /\ c = Len(calls)
              /\ pc \in {"bt_loop", "bt_wait", "bt_return"}
    /\ pc \in {"bt_loop", "bt_wait", "bt_return"} =>
          /\ calls /= <<>>
          /\ calls[Len(calls)].result = NoList
          /\ calls[Len(calls)].texts = texts
    /\ translate_vtt_finished =>
          /\ in_flight = 0
          /\ idx = Len(lines)
          /\ DispatchedPositions(Len(calls)) = CaptionPositions(DocLines, 1)
          /\ \A c \in 1..Len(calls) : calls[c].result /= NoList
          /\ output_file = write_vtt(lines)
    /\ ffmpeg_runs > 0 => translate_vtt_finished
    /\ Printed("Process complete") => ffmpeg_runs = 1

\* main on a document with a caption has ended: the batch was translated,
\* the output was written and ffmpeg has run once
C10_Witness ==
    /\ entry = "main" /\ pc = "done"
    /\ ffmpeg_runs = 1
    /\ calls /= <<>>
    /\ translate_vtt_finished

\* a second request of one call is in flight after the first one failed
C10_RetryInFlight ==
    /\ pc = "bt_wait" /\ in_flight = 1 /\ requests = 2 /\ Len(calls) = 2

====
